---- MODULE Spec2Model ----
(***************************************************************************)
(* Model of the batch pull requester (cmd/mkpr, internal/mkpr).            *)
(*                                                                         *)
(* The program: run() parses a batch description, validates it, looks up   *)
(* the authenticated user and then, for every destination in order, runs   *)
(* one job: getRef -> getTree -> pushCommit -> createPR.  Every remote     *)
(* call of the go-github client is one step of the model, so that another  *)
(* actor pushing to the same repository can interleave with a job.         *)
(*                                                                         *)
(* The hosting service is the environment: its references, commits and     *)
(* pull requests are state of the model, and every remote call may fail    *)
(* for transport reasons in addition to the failures its state forces.     *)
(***************************************************************************)
EXTENDS Integers, Sequences, FiniteSets, TLC

\* ------------------------------------------------------------------ bounds
MaxDest == 2        \* longest destination list
MaxRuns == 2        \* how often the tool is run against the same service
MaxPush == 1        \* commits pushed by another actor during one run
MaxFaults == 1      \* remote calls of one run that fail for transport reasons
MaxLen == 4         \* longest file-mapping entry of the parsing specification

\* --------------------------------------------------------------- universes
Repos == {"r1", "r2"}
HeadNames == {"", "feat"}
BaseNames == {"", "feat", "main"}
BranchNames == {"", "feat", "main"}
Owner == "mercadolibre"
Chars == {"a", "b", ":"}
Sep == ":"

NoErr == <<>>
NoURL == <<>>
NoRef == [name |-> "", sha |-> 0]
NoTree == [base |-> 0, entries |-> <<>>]
NoAuthor == [name |-> "", email |-> ""]
NoneSeen == [first |-> 0, last |-> 0, n |-> 0]

\* file-mapping entries are strings, modelled as sequences of characters
FileA == <<"a">>
FileAB == <<"a", ":", "b">>
FileLists == { <<>>, <<FileA>>, <<FileAB, FileA>> }

DestSet == [Repository : Repos, Base : BaseNames]

RECURSIVE SeqsUpTo(_, _)
SeqsUpTo(S, n) ==
    IF n = 0 THEN { <<>> }
    ELSE LET shorter == SeqsUpTo(S, n - 1)
         IN shorter \cup { Append(s, x) : s \in { t \in shorter : Len(t) = n - 1 }, x \in S }

VARIABLES
    option,     \* BatchPullRequestOption: Head, Destinations, Files
    pc,         \* position of run(): "start", "users", "job", "exit"
    jpc,        \* position of the current job inside pullRequestCommand.do
    i,          \* index of the destination Range is at (0: none)
    author,     \* authorName / authorEmail of the batch options
    ref,        \* the job's *github.Reference (name, sha)
    tree,       \* the job's *github.Tree
    newCommit,  \* SHA of the commit the job created (0: none)
    urls,       \* Do's urls slice
    err,        \* the error run() returned
    out,        \* lines printed by the process
    run,        \* number of the current run of the tool
    refs,       \* service: repository -> branch -> SHA (0: no such branch)
    commits,    \* service: commits[s] is the parent of commit s (0: root)
    prs,        \* service: open pull requests
    pushes,     \* history: the commits another actor pushed during this run
    faults,     \* remote calls of this run that failed for transport reasons
    calls,      \* history: every remote call of this run, in order
    reads,      \* history: every local file read of this run, in order
    seen        \* history: repository -> the references getRef returned from an
                \* existing commit branch since that branch last changed: the
                \* SHA of the first, the SHA of the last, and how many

vars == << option, pc, jpc, i, author, ref, tree, newCommit, urls, err,
           out, run, refs, commits, prs, pushes, faults, calls, reads, seen >>

\* ------------------------------------------------------- pure functions

\* validate without the check for an empty base branch
RECURSIVE validateFrom_noEmptyCheck(_, _)
validateFrom_noEmptyCheck(b, k) ==
    IF k > Len(b.Destinations) THEN NoErr
    ELSE LET v == b.Destinations[k]
         IN IF b.Head = v.Base
            THEN << "base branch cannot be the same as head at repository", v.Repository >>
            ELSE validateFrom_noEmptyCheck(b, k + 1)

\* BatchPullRequestOption.validate: NoErr, or the first error found.
RECURSIVE validateFrom(_, _)
validateFrom(b, k) ==
    IF k > Len(b.Destinations) THEN NoErr
    ELSE LET v == b.Destinations[k]
         IN IF v.Base = ""
            THEN << "head branc of destination repository is empty", v.Repository >>
            ELSE IF b.Head = v.Base
            THEN << "base branch cannot be the same as head at repository", v.Repository >>
            ELSE validateFrom(b, k + 1)

validate(b) ==
    IF b.Head = "" THEN << "base branch cannot be empty" >>
    ELSE validateFrom(b, 1)

\* position of the first separator of s at or after position k (0: none)
RECURSIVE IndexFrom(_, _)
IndexFrom(s, k) ==
    IF k > Len(s) THEN 0
    ELSE IF s[k] = Sep THEN k
    ELSE IndexFrom(s, k + 1)

\* strings.Split(s, ":"): every segment between separators, empty ones included
RECURSIVE Split(_)
Split(s) ==
    LET k == IndexFrom(s, 1)
    IN IF k = 0 THEN << s >>
       ELSE << SubSeq(s, 1, k - 1) >> \o Split(SubSeq(s, k + 1, Len(s)))

\* getFileContent splitting at the first separator only: the target is all
\* that follows it
getFileContent_splitOnce(fileArg) ==
    LET k == IndexFrom(fileArg, 1)
    IN IF k = 0
       THEN [err |-> NoErr, localFile |-> fileArg, targetName |-> fileArg]
       ELSE [err |-> NoErr, localFile |-> SubSeq(fileArg, 1, k - 1),
             targetName |-> SubSeq(fileArg, k + 1, Len(fileArg))]

\* getFileContent up to the file read: the local file and the target name
getFileContent(fileArg) ==
    LET files == Split(fileArg)
    IN IF Len(files) < 1
       THEN [err |-> << "empty files" >>, localFile |-> << >>, targetName |-> << >>]
       ELSE IF Len(files) = 1
       THEN [err |-> NoErr, localFile |-> files[1], targetName |-> files[1]]
       ELSE [err |-> NoErr, localFile |-> files[1], targetName |-> files[2]]

\* Range giving every job the repository of the first destination
JobOptions_firstRepo(b, a, k) ==
    LET v == b.Destinations[k]
    IN [ SourceRepo |-> b.Destinations[1].Repository, BaseBranch |-> v.Base,
         CommitBranch |-> b.Head, PullRequestRepo |-> b.Destinations[1].Repository,
         PullRequestBranch |-> v.Base, Files |-> b.Files,
         AuthorName |-> a.name, AuthorEmail |-> a.email,
         SourceOwner |-> Owner, PullRequestOwner |-> Owner ]

\* Range leaving the author out of a job's options
JobOptions_noAuthor(b, a, k) ==
    LET v == b.Destinations[k]
    IN [ SourceRepo |-> v.Repository, BaseBranch |-> v.Base,
         CommitBranch |-> b.Head, PullRequestRepo |-> v.Repository,
         PullRequestBranch |-> v.Base, Files |-> b.Files,
         AuthorName |-> "", AuthorEmail |-> "",
         SourceOwner |-> Owner, PullRequestOwner |-> Owner ]

\* Range's pullRequestCreationOptions for destination k
JobOptions(b, a, k) ==
    LET v == b.Destinations[k]
    IN [ SourceRepo |-> v.Repository, BaseBranch |-> v.Base,
         CommitBranch |-> b.Head, PullRequestRepo |-> v.Repository,
         PullRequestBranch |-> v.Base, Files |-> b.Files,
         AuthorName |-> a.name, AuthorEmail |-> a.email,
         SourceOwner |-> Owner, PullRequestOwner |-> Owner ]

options == JobOptions(option, author, i)

\* Range going on to the next destination after a failed job
RangeStops_never(e) == FALSE

\* Range stops at the first job whose callback returned an error
RangeStops(e) == e # NoErr

\* a forced reference update
UpdateForce_forced == TRUE

\* the force argument of the reference update
UpdateForce == FALSE

\* ------------------------------------------------------- the service

RefExists(repo, b) == b \in BranchNames /\ b # "" /\ refs[repo][b] # 0

\* commit a is commit s or one of its ancestors
RECURSIVE IsAncestor(_, _)
IsAncestor(a, s) ==
    IF s = 0 THEN FALSE
    ELSE IF a = s THEN TRUE
    ELSE IsAncestor(a, commits[s])

\* a reference is created when it does not exist yet and its commit does
CreateAccepted(repo, b, sha) ==
    /\ b \in BranchNames /\ b # ""
    /\ ~RefExists(repo, b)
    /\ sha \in 1..Len(commits)

\* a reference update is accepted when forced or a fast-forward
UpdateAccepted(repo, b, sha, force) ==
    /\ RefExists(repo, b)
    /\ sha \in 1..Len(commits)
    /\ (force \/ IsAncestor(refs[repo][b], sha))

PRUrl(repo, head, base) == << "pr", repo, head, base >>

\* a pull request needs both branches and must not duplicate an open one
PRAccepted(repo, head, base) ==
    /\ RefExists(repo, head)
    /\ RefExists(repo, base)
    /\ head # base
    /\ [repo |-> repo, head |-> head, base |-> base] \notin prs

\* the outcomes of a remote call the service would answer with success (sem)
\* or with an error: a call fails when the service refuses it, and may fail
\* for transport reasons otherwise
Outcomes(sem) == IF sem /\ faults < MaxFaults THEN {TRUE, FALSE} ELSE {sem}

Faulted(sem, ok) == IF sem /\ ~ok THEN faults + 1 ELSE faults

\* the context argument of each client call: Do's parameter ctx, which do
\* and its helpers pass on, except for the lookup of the user
CtxOf(op) == IF op = "Users.Get" THEN "context.Background()" ELSE "ctx"

\* the author pushCommit puts in the commit it asks for
AuthorOf(op) ==
    IF op = "Git.CreateCommit" THEN << options.AuthorName, options.AuthorEmail >>
    ELSE << >>

\* the record of one remote call: what was asked, whether it succeeded, and
\* the SHA it returned
Call(op, repo, name, base, sha, entries, force, ok, res) ==
    [ run |-> run, job |-> i, op |-> op, owner |-> Owner, repo |-> repo,
      ref |-> name, base |-> base, sha |-> sha, entries |-> entries,
      force |-> force, ok |-> ok, res |-> res,
      ctx |-> CtxOf(op), author |-> AuthorOf(op) ]

Branch(main, feat) == [b \in BranchNames |-> IF b = "main" THEN main ELSE IF b = "feat" THEN feat ELSE 0]

\* a repository starts with its base branch only (at commit 2), with the base
\* branch (at commit 1) and the commit branch (at commit 2), or with neither
RepoInits == { Branch(2, 0), Branch(1, 2), Branch(0, 0) }

\* ------------------------------------------------------------- initial state
Init ==
    /\ option \in [Head : HeadNames, Destinations : SeqsUpTo(DestSet, MaxDest), Files : FileLists]
    /\ pc = "start"
    /\ jpc = "none"
    /\ i = 0
    /\ author = NoAuthor
    /\ ref = NoRef
    /\ tree = NoTree
    /\ newCommit = 0
    /\ urls = << >>
    /\ err = NoErr
    /\ out = << >>
    /\ run = 1
    /\ refs \in [Repos -> RepoInits]
    /\ commits = << 0, 1 >>
    /\ prs = {}
    /\ pushes = << >>
    /\ faults = 0
    /\ calls = << >>
    /\ reads = << >>
    /\ seen = [r \in Repos |-> NoneSeen]

\* ------------------------------------------------------------------ run()

Sorry(e) == << << "sorry: " >> \o e >>

\* run returns e before Do was called; main prints it
Exit(printed, e) ==
    /\ pc' = "exit"
    /\ err' = e
    /\ out' = out \o printed \o Sorry(e)

\* run reporting the error before the URLs, and "done." in every case
Finish_errorFirst(u, e) ==
    /\ pc' = "exit"
    /\ jpc' = "none"
    /\ urls' = u
    /\ err' = e
    /\ out' = out \o (IF e # NoErr THEN Sorry(e) ELSE << >>) \o u \o << << "done." >> >>

\* Do returned (u, e): run prints the URLs, then either returns the error,
\* which main prints, or prints "done."
Finish(u, e) ==
    /\ pc' = "exit"
    /\ jpc' = "none"
    /\ urls' = u
    /\ err' = e
    /\ out' = out \o u \o (IF e # NoErr THEN Sorry(e) ELSE << << "done." >> >>)

\* NewBatchPullRequestCommand without the validation
NewBatchPullRequestCommand_unchecked(b) == NoErr

\* NewBatchPullRequestCommand: the command, or the validation error
NewBatchPullRequestCommand(b) == validate(b)

RunStart ==
    /\ pc = "start"
    /\ \E parseOk \in BOOLEAN, tok \in {"", "tok"} :
         IF ~parseOk THEN Exit(<< >>, << "ParseFile" >>)
         ELSE IF tok = "" THEN Exit(<< >>, << "GITHUB_AUTH_TOKEN not set" >>)
         ELSE IF NewBatchPullRequestCommand(option) # NoErr
         THEN Exit(<< << "hold ..." >> >>, NewBatchPullRequestCommand(option))
         ELSE /\ pc' = "users"
              /\ out' = Append(out, << "hold ..." >>)
              /\ err' = err
    /\ UNCHANGED << option, jpc, i, author, ref, tree, newCommit, urls, run,
                    refs, commits, prs, pushes, faults, calls, reads, seen >>

\* Do up to the first job: the authenticated-user lookup
DoUsersGet ==
    /\ pc = "users"
    /\ \E ok \in Outcomes(TRUE) :
         /\ calls' = Append(calls, Call("Users.Get", "", "", "", 0, << >>, FALSE, ok, 0))
         /\ faults' = Faulted(TRUE, ok)
         /\ IF ~ok
            THEN /\ Finish(<< >>, << "Users.Get" >>)
                 /\ UNCHANGED << author, i >>
            ELSE /\ author' = [name |-> "name", email |-> "email"]
                 /\ IF Len(option.Destinations) = 0
                    THEN Finish(<< >>, NoErr) /\ i' = i
                    ELSE /\ pc' = "job"
                         /\ jpc' = "getRef"
                         /\ i' = 1
                         /\ urls' = << >>
                         /\ UNCHANGED << err, out >>
    /\ UNCHANGED << option, ref, tree, newCommit, run, refs, commits, prs, pushes, reads, seen >>

\* Do's callback keeping the last URL only
KeepURL_overwrite(us, prURL) == IF prURL # NoURL THEN << prURL >> ELSE us

\* Do's callback keeps the URL of a job that returned one
KeepURL(us, prURL) == IF prURL # NoURL THEN Append(us, prURL) ELSE us

\* the job's do returned (prURL, e): Do's callback keeps a non-empty URL,
\* Range goes to the next destination or returns, and Do returns to run
JobEnd(prURL, e) ==
    LET u == KeepURL(urls, prURL)
    IN /\ ref' = NoRef
       /\ tree' = NoTree
       /\ newCommit' = 0
       /\ IF RangeStops(e)
          THEN Finish(u, e) /\ i' = i
          ELSE IF i < Len(option.Destinations)
          THEN /\ i' = i + 1
               /\ jpc' = "getRef"
               /\ urls' = u
               /\ UNCHANGED << pc, err, out >>
          ELSE Finish(u, NoErr) /\ i' = i

\* the job goes on to its next remote call
JobStep(next) ==
    /\ jpc' = next
    /\ UNCHANGED << pc, i, urls, err, out >>

\* ----------------------------------------------------- pullRequestCommand

\* do going on after an error
Returns_never(e) == FALSE

\* do and its steps return at the first error
Returns(e) == e # NoErr

\* getRef turning to the base branch whatever the lookup answered
AfterGetRef_always(found) == "getBaseRef"

\* getRef returns the commit branch's reference when its lookup succeeded
\* getRef giving up the base branch when the lookup returned an error
AfterGetRef_skipBase(found) == "getTree"

\* and turns to the base branch otherwise
AfterGetRef(found) == IF found THEN "getTree" ELSE "getBaseRef"

\* getRef creating the reference at the repository's first commit
NewRef_root(commitBranch, baseSha) == [name |-> commitBranch, sha |-> 1]

\* the reference getRef asks the service to create
NewRef(commitBranch, baseSha) == [name |-> commitBranch, sha |-> baseSha]

\* getRef: the lookup of refs/heads/<commit branch>
GetRef ==
    /\ pc = "job" /\ jpc = "getRef"
    /\ \E found \in Outcomes(RefExists(options.SourceRepo, options.CommitBranch)) :
         LET o == options
             sha == IF found THEN refs[o.SourceRepo][o.CommitBranch] ELSE 0
         IN /\ calls' = Append(calls, Call("Git.GetRef", o.SourceRepo, o.CommitBranch,
                                           "", 0, << >>, FALSE, found, sha))
            /\ faults' = Faulted(RefExists(o.SourceRepo, o.CommitBranch), found)
            /\ ref' = IF found THEN [name |-> o.CommitBranch, sha |-> sha] ELSE NoRef
            /\ seen' = IF found
                       THEN [seen EXCEPT ![o.SourceRepo] =
                               [first |-> IF @.n = 0 THEN ref'.sha ELSE @.first,
                                last |-> ref'.sha, n |-> @.n + 1]]
                       ELSE seen
            /\ JobStep(AfterGetRef(found))
    /\ UNCHANGED << option, author, tree, newCommit, run, refs, commits, prs, pushes, reads >>

\* getRef: the lookup of refs/heads/<base branch>
GetBaseRef ==
    /\ pc = "job" /\ jpc = "getBaseRef"
    /\ \E found \in Outcomes(RefExists(options.SourceRepo, options.BaseBranch)) :
         LET o == options
             sha == IF found THEN refs[o.SourceRepo][o.BaseBranch] ELSE 0
             e == IF found THEN NoErr ELSE << "unable to get base ref", "Git.GetRef" >>
         IN /\ calls' = Append(calls, Call("Git.GetRef", o.SourceRepo, o.BaseBranch,
                                           "", 0, << >>, FALSE, found, sha))
            /\ faults' = Faulted(RefExists(o.SourceRepo, o.BaseBranch), found)
            /\ IF Returns(e)
               THEN JobEnd(NoURL, e)
               ELSE /\ ref' = NewRef(o.CommitBranch, sha)
                    /\ JobStep("createRef")
                    /\ UNCHANGED << tree, newCommit >>
    /\ UNCHANGED << option, author, run, refs, commits, prs, pushes, reads, seen >>

\* getRef: the creation of refs/heads/<commit branch> at the base branch's SHA
CreateRef ==
    /\ pc = "job" /\ jpc = "createRef"
    /\ \E created \in Outcomes(CreateAccepted(options.SourceRepo, ref.name, ref.sha)) :
         LET o == options
             e == IF created THEN NoErr ELSE << "Git.CreateRef" >>
         IN /\ calls' = Append(calls, Call("Git.CreateRef", o.SourceRepo, ref.name,
                                           "", ref.sha, << >>, FALSE, created, ref.sha))
            /\ faults' = Faulted(CreateAccepted(o.SourceRepo, ref.name, ref.sha), created)
            /\ refs' = IF created THEN [refs EXCEPT ![o.SourceRepo][ref.name] = ref.sha]
                       ELSE refs
            /\ seen' = IF created THEN [seen EXCEPT ![o.SourceRepo] = NoneSeen] ELSE seen
            /\ IF Returns(e)
               THEN JobEnd(NoURL, e)
               ELSE /\ JobStep("getTree")
                    /\ UNCHANGED << ref, tree, newCommit >>
    /\ UNCHANGED << option, author, run, commits, prs, pushes, reads >>

TreeErr(e) == << "unable to create the tree based on the provided files" >> \o e

\* the entries of Files whose parsing fails
ParseErrAt(files) == { k \in 1..Len(files) : getFileContent(files[k]).err # NoErr }

\* getTree: the loop that loads every file; bad is the first file that
\* cannot be loaded (0: every file is loaded)
LoadFiles ==
    /\ pc = "job" /\ jpc = "getTree"
    /\ \E bad \in 0..Len(options.Files) :
         LET files == options.Files
             last == IF bad = 0 THEN Len(files) ELSE bad
             got == [k \in 1..last |-> getFileContent(files[k])]
             e == IF bad = 0 THEN NoErr
                  ELSE IF bad \in ParseErrAt(files) THEN got[bad].err
                  ELSE << "ReadFile" >> \o got[bad].localFile
         IN /\ \A k \in ParseErrAt(files) : bad # 0 /\ bad <= k
            /\ reads' = reads \o [k \in 1..last |->
                                    [run |-> run, job |-> i, at |-> Len(calls),
                                     arg |-> files[k],
                                     localFile |-> got[k].localFile,
                                     targetName |-> got[k].targetName,
                                     ok |-> k # bad]]
            /\ IF Returns(e)
               THEN JobEnd(NoURL, TreeErr(e))
               ELSE /\ tree' = [base |-> ref.sha,
                                entries |-> [k \in 1..last |-> got[k].targetName]]
                    /\ JobStep("createTree")
                    /\ UNCHANGED << ref, newCommit >>
    /\ UNCHANGED << option, author, run, refs, commits, prs, pushes, faults, calls, seen >>

\* getTree: the creation of the tree on top of the reference's commit
CreateTree ==
    /\ pc = "job" /\ jpc = "createTree"
    /\ \E created \in Outcomes(tree.base \in 1..Len(commits)) :
         LET o == options
             e == IF created THEN NoErr ELSE << "Git.CreateTree" >>
         IN /\ calls' = Append(calls, Call("Git.CreateTree", o.SourceRepo, "", "",
                                           tree.base, tree.entries, FALSE, created, 0))
            /\ faults' = Faulted(tree.base \in 1..Len(commits), created)
            /\ IF Returns(e)
               THEN JobEnd(NoURL, TreeErr(e))
               ELSE /\ JobStep("getCommit")
                    /\ UNCHANGED << ref, tree, newCommit >>
    /\ UNCHANGED << option, author, run, refs, commits, prs, pushes, reads, seen >>

CommitErr(e) == << "unable to create the commit" >> \o e

\* pushCommit: the lookup of the parent commit
GetCommit ==
    /\ pc = "job" /\ jpc = "getCommit"
    /\ \E found \in Outcomes(ref.sha \in 1..Len(commits)) :
         LET o == options
             e == IF found THEN NoErr ELSE << "Repositories.GetCommit" >>
         IN /\ calls' = Append(calls, Call("Repositories.GetCommit", o.SourceRepo, "", "",
                                           ref.sha, << >>, FALSE, found,
                                           IF found THEN ref.sha ELSE 0))
            /\ faults' = Faulted(ref.sha \in 1..Len(commits), found)
            /\ IF Returns(e)
               THEN JobEnd(NoURL, CommitErr(e))
               ELSE /\ JobStep("createCommit")
                    /\ UNCHANGED << ref, tree, newCommit >>
    /\ UNCHANGED << option, author, run, refs, commits, prs, pushes, reads, seen >>

\* pushCommit taking the repository's first commit as the parent
ParentOf_root(r) == 1

\* pushCommit: the parent of the new commit is the commit the reference holds
ParentOf(r) == r.sha

\* pushCommit: the creation of the commit, whose parent is the commit read;
\* on success the local reference is moved to the new commit
CreateCommit ==
    /\ pc = "job" /\ jpc = "createCommit"
    /\ \E ok \in Outcomes(TRUE) :
         LET o == options
             parent == ParentOf(ref)
             sha == IF ok THEN Len(commits) + 1 ELSE 0
             e == IF ok THEN NoErr ELSE << "unable to commit", "Git.CreateCommit" >>
         IN /\ calls' = Append(calls, Call("Git.CreateCommit", o.SourceRepo, "", "",
                                           parent, tree.entries, FALSE, ok, sha))
            /\ faults' = Faulted(TRUE, ok)
            /\ commits' = IF ok THEN Append(commits, parent) ELSE commits
            /\ IF Returns(e)
               THEN JobEnd(NoURL, CommitErr(e))
               ELSE /\ newCommit' = sha
                    /\ ref' = [ref EXCEPT !.sha = sha]
                    /\ tree' = tree
                    /\ JobStep("updateRef")
    /\ UNCHANGED << option, author, run, refs, prs, pushes, reads, seen >>

\* pushCommit: the update of the commit branch to the new commit
UpdateRef ==
    /\ pc = "job" /\ jpc = "updateRef"
    /\ \E accepted \in Outcomes(UpdateAccepted(options.SourceRepo, ref.name, ref.sha, UpdateForce)) :
         LET o == options
             e == IF accepted THEN NoErr ELSE << "Git.UpdateRef" >>
         IN /\ calls' = Append(calls, Call("Git.UpdateRef", o.SourceRepo, ref.name, "",
                                           ref.sha, << >>, UpdateForce, accepted, ref.sha))
            /\ faults' = Faulted(UpdateAccepted(o.SourceRepo, ref.name, ref.sha, UpdateForce), accepted)
            /\ refs' = IF accepted THEN [refs EXCEPT ![o.SourceRepo][ref.name] = ref.sha]
                       ELSE refs
            /\ seen' = IF accepted THEN [seen EXCEPT ![o.SourceRepo] = NoneSeen] ELSE seen
            /\ IF Returns(e)
               THEN JobEnd(NoURL, CommitErr(e))
               ELSE /\ JobStep("createPR")
                    /\ UNCHANGED << ref, tree, newCommit >>
    /\ UNCHANGED << option, author, run, commits, prs, pushes, reads >>

\* createPR, and the return of do
CreatePR ==
    /\ pc = "job" /\ jpc = "createPR"
    /\ \E accepted \in Outcomes(PRAccepted(options.PullRequestRepo, options.CommitBranch,
                                           options.PullRequestBranch)) :
         LET o == options
             e == IF accepted THEN NoErr ELSE << "unable to create PR", "PullRequests.Create" >>
         IN /\ calls' = Append(calls, Call("PullRequests.Create", o.PullRequestRepo,
                                           o.CommitBranch, o.PullRequestBranch, 0, << >>,
                                           FALSE, accepted, 0))
            /\ faults' = Faulted(PRAccepted(o.PullRequestRepo, o.CommitBranch,
                                            o.PullRequestBranch), accepted)
            /\ prs' = IF accepted
                      THEN prs \cup { [repo |-> o.PullRequestRepo, head |-> o.CommitBranch,
                                       base |-> o.PullRequestBranch] }
                      ELSE prs
            /\ IF Returns(e)
               THEN JobEnd(NoURL, e)
               ELSE JobEnd(PRUrl(o.PullRequestRepo, o.CommitBranch, o.PullRequestBranch), NoErr)
    /\ UNCHANGED << option, author, run, refs, commits, pushes, reads, seen >>

\* ------------------------------------------------------------ environment

\* another actor pushes a commit to the commit branch of a repository while
\* a job is under way
OtherActorPush ==
    /\ pc = "job"
    /\ Len(pushes) < MaxPush
    /\ \E r \in Repos :
         /\ RefExists(r, "feat")
         /\ commits' = Append(commits, refs[r]["feat"])
         /\ refs' = [refs EXCEPT ![r]["feat"] = Len(commits) + 1]
         /\ pushes' = Append(pushes, [repo |-> r, sha |-> Len(commits) + 1,
                                       at |-> Len(calls)])
         /\ seen' = [seen EXCEPT ![r] = NoneSeen]
    /\ UNCHANGED << option, pc, jpc, i, author, ref, tree, newCommit, urls, err, out,
                    run, prs, faults, calls, reads >>

\* the tool is run again with the same batch description
Rerun ==
    /\ pc = "exit"
    /\ run < MaxRuns
    /\ run' = run + 1
    /\ pc' = "start"
    /\ jpc' = "none"
    /\ i' = 0
    /\ author' = NoAuthor
    /\ urls' = << >>
    /\ err' = NoErr
    /\ out' = << >>
    /\ pushes' = << >>
    /\ faults' = 0
    /\ calls' = << >>
    /\ reads' = << >>
    /\ UNCHANGED << option, ref, tree, newCommit, refs, commits, prs, seen >>

Next ==
    \/ RunStart
    \/ DoUsersGet
    \/ GetRef
    \/ GetBaseRef
    \/ CreateRef
    \/ LoadFiles
    \/ CreateTree
    \/ GetCommit
    \/ CreateCommit
    \/ UpdateRef
    \/ CreatePR
    \/ OtherActorPush
    \/ Rerun

Spec == Init /\ [][Next]_vars

\* ---------------------------------------------------- file-mapping parsing

\* every string over Chars of at most MaxLen characters
FileArgs == SeqsUpTo(Chars, MaxLen)

\* a job of a batch with one destination has resolved its reference and is
\* about to load its one file, whose mapping entry is any string
InitParse ==
    /\ option \in [Head : {"feat"},
                    Destinations : { << [Repository |-> "r1", Base |-> "main"] >> },
                    Files : { << f >> : f \in FileArgs }]
    /\ pc = "job"
    /\ jpc = "getTree"
    /\ i = 1
    /\ author = [name |-> "name", email |-> "email"]
    /\ ref = [name |-> "feat", sha |-> 2]
    /\ tree = NoTree
    /\ newCommit = 0
    /\ urls = << >>
    /\ err = NoErr
    /\ out = << << "hold ..." >> >>
    /\ run = 1
    /\ refs = [r \in Repos |-> Branch(1, 2)]
    /\ commits = << 0, 1 >>
    /\ prs = {}
    /\ pushes = << >>
    /\ faults = 0
    /\ calls = << [Call("Users.Get", "", "", "", 0, << >>, FALSE, TRUE, 0) EXCEPT !.job = 0],
                  Call("Git.GetRef", "r1", "feat", "", 0, << >>, FALSE, TRUE, 2) >>
    /\ reads = << >>
    /\ seen = [r \in Repos |-> IF r = "r1" THEN [first |-> 2, last |-> 2, n |-> 1]
                                ELSE NoneSeen]

SpecParse == InitParse /\ [][LoadFiles]_vars

TypeOK ==
    /\ pc \in {"start", "users", "job", "exit"}
    /\ i \in 0..Len(option.Destinations)
    /\ run \in 1..MaxRuns

\* ---------------------------------------------------------------- claims

NDest == Len(option.Destinations)

\* the positions in calls of the calls job j issued
JobIdx(j) == { k \in DOMAIN calls : calls[k].job = j }

\* the calls of job j, in order
JobCalls(j) == SelectSeq(calls, LAMBDA c : c.job = j)

\* call k is the lookup of the commit branch that opens a job
IsLookup(k) ==
    /\ calls[k].job >= 1
    /\ calls[k].op = "Git.GetRef"
    /\ \A m \in JobIdx(calls[k].job) : k <= m

\* job j opened its pull request
JobSucceeded(j) ==
    \E k \in JobIdx(j) : calls[k].op = "PullRequests.Create" /\ calls[k].ok

\* job j has returned
JobOver(j) == j >= 1 /\ (i > j \/ (i = j /\ pc = "exit"))

\* the URL of the pull request of destination j
DestURL(j) ==
    << "pr", option.Destinations[j].Repository, option.Head, option.Destinations[j].Base >>

\* a batch description that validation must refuse
Invalid(b) ==
    \/ b.Head = ""
    \/ \E k \in DOMAIN b.Destinations :
          b.Destinations[k].Base = "" \/ b.Destinations[k].Base = b.Head

\* C1: jobs run one at a time in destination order; when job k is the first
\* job to fail, run has got a non-nil error and exactly the URLs of
\* destinations 1..k-1 in order from Do, and no call was made for a later
\* destination.
C1_PartialBatch ==
    /\ \A a \in DOMAIN calls : \A b \in DOMAIN calls :
          a < b => calls[a].job <= calls[b].job
    /\ \A k \in 1..NDest :
          (JobOver(k) /\ ~JobSucceeded(k) /\ \A j \in 1..(k - 1) : JobSucceeded(j))
          => /\ pc = "exit"
             /\ err # NoErr
             /\ urls = [j \in 1..(k - 1) |-> DestURL(j)]
             /\ \A c \in DOMAIN calls : calls[c].job <= k

\* the first of two destinations succeeded, the second failed after at least
\* one remote call
C1_Witness ==
    /\ pc = "exit" /\ NDest = 2 /\ i = 2
    /\ JobSucceeded(1) /\ ~JobSucceeded(2)
    /\ err # NoErr /\ Len(urls) = 1
    /\ JobIdx(2) # {}

\* the state of the current job in the job state machine
JobState ==
    IF jpc \in {"getRef", "getBaseRef", "createRef"} THEN "Init"
    ELSE IF jpc \in {"getTree", "createTree"} THEN "RefResolved"
    ELSE IF jpc \in {"getCommit", "createCommit", "updateRef"} THEN "TreeBuilt"
    ELSE IF jpc = "createPR" THEN "CommitPublished"
    ELSE "none"

\* the operation that completes the step before the one op belongs to
\* (the empty set: op belongs to the first step)
Before(op) ==
    CASE op = "Git.CreateTree" -> {"Git.GetRef", "Git.CreateRef"}
      [] op = "Repositories.GetCommit" -> {"Git.CreateTree"}
      [] op = "Git.CreateCommit" -> {"Repositories.GetCommit"}
      [] op = "Git.UpdateRef" -> {"Git.CreateCommit"}
      [] op = "PullRequests.Create" -> {"Git.UpdateRef"}
      [] OTHER -> {}

\* C2: a job's remote calls follow Init -> RefResolved -> TreeBuilt ->
\* CommitPublished -> PRCreated: a call of a step is issued only after the
\* call completing the step before it succeeded, and after a failed step
\* (a failed call other than the commit-branch lookup, or a failed file
\* read) the job issues no further call.
C2_StateMachine ==
    /\ \A k \in DOMAIN calls :
          LET c == calls[k]
          IN /\ (c.job >= 1 /\ Before(c.op) # {})
                => \E m \in JobIdx(c.job) :
                      /\ m < k
                      /\ calls[m].op \in Before(c.op)
                      /\ calls[m].ok
                      /\ (calls[m].op = "Git.GetRef" => IsLookup(m))
             /\ (c.job >= 1 /\ ~c.ok /\ ~IsLookup(k))
                => \A m \in JobIdx(c.job) : m <= k
    /\ \A r \in DOMAIN reads :
          ~reads[r].ok => \A m \in JobIdx(reads[r].job) : m <= reads[r].at
    /\ (pc = "job" /\ JobState = "RefResolved")
          => \E m \in JobIdx(i) : calls[m].ok /\ calls[m].op \in {"Git.GetRef", "Git.CreateRef"}
    /\ (pc = "job" /\ JobState = "TreeBuilt")
          => \E m \in JobIdx(i) : calls[m].ok /\ calls[m].op = "Git.CreateTree"
    /\ (pc = "job" /\ JobState = "CommitPublished")
          => \E m \in JobIdx(i) : calls[m].ok /\ calls[m].op = "Git.UpdateRef"
    /\ (pc = "job") => (JobState # "none" /\ ~JobOver(i))

\* a job failed at the tree creation, after its reference was resolved, and
\* the batch ended there
C2_Witness ==
    /\ pc = "exit" /\ i >= 1 /\ calls # << >>
    /\ calls[Len(calls)].op = "Git.CreateTree"
    /\ ~calls[Len(calls)].ok
    /\ calls[Len(calls)].job = i
    /\ err # NoErr

\* C3: validation fails exactly for the batch descriptions with an empty head
\* or with a destination whose base is empty or equal to head; run goes on to
\* the remote calls exactly for the others.
C3_Validate ==
    /\ (validate(option) # NoErr) <=> Invalid(option)
    /\ (pc \in {"users", "job"}) => ~Invalid(option)
    /\ (pc = "exit" /\ out # << >> /\ out[1] = << "hold ..." >> /\ Invalid(option))
          => (Len(out) = 2 /\ err = validate(option) /\ err # NoErr)

\* a description whose second destination has the head as its base was
\* refused, and one without destinations was accepted
C3_WitnessRefused ==
    /\ pc = "exit" /\ NDest = 2 /\ option.Head = "feat"
    /\ option.Destinations[1].Base = "main"
    /\ option.Destinations[2].Base = "feat"
    /\ err = << "base branch cannot be the same as head at repository",
                option.Destinations[2].Repository >>

\* C4: an invalid batch description leads to no remote call at all, so every
\* job that issued a call has a non-empty commit branch and a non-empty base
\* branch other than the commit branch.
C4_NoCallWhenInvalid ==
    /\ Invalid(option) => calls = << >>
    /\ \A k \in DOMAIN calls :
          calls[k].job >= 1
          => /\ option.Head # ""
             /\ option.Destinations[calls[k].job].Base # ""
             /\ option.Destinations[calls[k].job].Base # option.Head

\* a description whose first destination is fine and whose second has an
\* empty base was run to its end without a call
C4_Witness ==
    /\ pc = "exit" /\ NDest = 2 /\ option.Head = "feat"
    /\ option.Destinations[1].Base = "main"
    /\ option.Destinations[2].Base = ""
    /\ out # << >> /\ out[1] = << "hold ..." >>
    /\ calls = << >>

\* the call that resolved the reference of job j: its successful lookup of
\* the commit branch, or its successful creation
ResolvedAt(j) ==
    { m \in JobIdx(j) : calls[m].ok /\ (IsLookup(m) \/ calls[m].op = "Git.CreateRef") }

\* C5: when another actor advanced the commit branch after the job resolved
\* it and before the job's reference update, that update is issued non-force
\* and rejected, the job and the batch end with the reference-update error,
\* no pull request is opened for the job, and the pushed commit stays in the
\* branch, whose head is a commit another actor pushed.
C5_NoForceUpdate ==
    \A u \in DOMAIN calls : \A q \in DOMAIN pushes :
       LET c == calls[u]
           p == pushes[q]
       IN (/\ c.op = "Git.UpdateRef"
           /\ p.repo = c.repo
           /\ p.at < u
           /\ \E m \in ResolvedAt(c.job) : m <= p.at)
          => /\ c.force = FALSE
             /\ ~c.ok
             /\ u = Len(calls)
             /\ pc = "exit"
             /\ i = c.job
             /\ err = << "unable to create the commit", "Git.UpdateRef" >>
             /\ Len(urls) = c.job - 1
             /\ ~JobSucceeded(c.job)
             /\ IsAncestor(p.sha, refs[c.repo][c.ref])
             /\ refs[c.repo][c.ref] \in { pushes[x].sha : x \in DOMAIN pushes }
             /\ refs[c.repo][c.ref] # c.sha

\* another actor pushed between the job's resolution and its update, and the
\* update was issued
C5_Witness ==
    \E u \in DOMAIN calls : \E q \in DOMAIN pushes :
       /\ calls[u].op = "Git.UpdateRef"
       /\ pushes[q].repo = calls[u].repo
       /\ pushes[q].at < u
       /\ \E m \in ResolvedAt(calls[u].job) : m <= pushes[q].at
       /\ refs[calls[u].repo][calls[u].ref] = pushes[q].sha

\* C6 as stated: whenever the commit branch exists in the job's repository,
\* the resolver does not go on to the base-branch lookup or to the creation.
C6_ExistsImpliesReused ==
    (pc = "job" /\ RefExists(options.SourceRepo, options.CommitBranch))
    => jpc \notin {"getBaseRef", "createRef"}

\* C6, amended: when the lookup of the commit branch succeeds, the resolver
\* returns the reference the service answered with, and the job issues no
\* base-branch lookup and no reference creation; the references returned for
\* an unchanged branch are all the same.
C6_FoundReused ==
    /\ \A k \in DOMAIN calls :
          (IsLookup(k) /\ calls[k].ok)
          => /\ calls[k].res # 0
             /\ \A m \in JobIdx(calls[k].job) :
                   m # k => calls[m].op \notin {"Git.GetRef", "Git.CreateRef"}
             /\ (k = Len(calls) /\ pc = "job")
                   => /\ jpc \in {"getTree", "createTree"}
                      /\ ref = [name |-> option.Head, sha |-> calls[k].res]
                      /\ Len(pushes) = 0 => ref.sha = refs[calls[k].repo][option.Head]
    /\ \A r \in Repos :
          seen[r].n >= 1 => (seen[r].first = seen[r].last /\ seen[r].last = refs[r]["feat"])

\* the commit branch of a repository was resolved in two runs in a row
\* without a change in between, and no reference was created
C6_Witness ==
    /\ run = 2 /\ pc = "job" /\ jpc = "getTree"
    /\ seen[options.SourceRepo].n = 2
    /\ Len(calls) = 2
    /\ calls[2].ok

\* C7: when the lookup of the commit branch failed, the base branch is looked
\* up next; when that fails the job ends with the base-reference error and
\* without a creation call; otherwise exactly one creation call follows, for
\* the commit branch, at the SHA the base lookup returned.
C7_CreateFromBase ==
    \A j \in 1..NDest :
       LET s == JobCalls(j)
           d == option.Destinations[j]
       IN (Len(s) >= 1 /\ ~s[1].ok)
          => /\ Len(s) = 1 => (pc = "job" /\ i = j /\ jpc = "getBaseRef")
             /\ Len(s) >= 2
                  => /\ s[2].op = "Git.GetRef"
                     /\ s[2].repo = d.Repository
                     /\ s[2].ref = d.Base
                     /\ ~s[2].ok
                          => /\ Len(s) = 2
                             /\ pc = "exit" /\ i = j
                             /\ err = << "unable to get base ref", "Git.GetRef" >>
                     /\ s[2].ok
                          => /\ s[2].res # 0
                             /\ Len(s) = 2 => (pc = "job" /\ i = j /\ jpc = "createRef")
                             /\ Len(s) >= 3
                                  => /\ s[3].op = "Git.CreateRef"
                                     /\ s[3].repo = d.Repository
                                     /\ s[3].ref = option.Head
                                     /\ s[3].sha = s[2].res
                             /\ \A k \in 4..Len(s) : s[k].op # "Git.CreateRef"

\* a job created its commit branch at commit 2, the head of the base branch
C7_Witness ==
    \E j \in 1..NDest :
       /\ Len(JobCalls(j)) >= 3
       /\ ~JobCalls(j)[1].ok
       /\ JobCalls(j)[2].ok /\ JobCalls(j)[2].res = 2
       /\ JobCalls(j)[3].op = "Git.CreateRef" /\ JobCalls(j)[3].ok
       /\ refs[option.Destinations[j].Repository]["feat"] = 2

\* no step of the batch failed: no failed call other than a lookup of the
\* commit branch, and no failed file read
AllStepsOk ==
    /\ \A k \in DOMAIN calls : calls[k].ok \/ IsLookup(k)
    /\ \A r \in DOMAIN reads : reads[r].ok

JobOps(j) == [k \in DOMAIN JobCalls(j) |-> JobCalls(j)[k].op]

\* C8: when Do has returned and no step failed, the error is nil and the URLs
\* are those of all destinations in order; a single destination whose commit
\* branch had to be created took exactly one creation of the reference, the
\* tree, the commit and the pull request, and one reference update.
C8_AllSucceed ==
    (pc = "exit" /\ calls # << >> /\ AllStepsOk)
    => /\ err = NoErr
       /\ urls = [j \in 1..NDest |-> DestURL(j)]
       /\ \A j \in 1..NDest : JobSucceeded(j)
       /\ (NDest = 1 /\ ~calls[2].ok)
            => /\ JobOps(1) = << "Git.GetRef", "Git.GetRef", "Git.CreateRef",
                                 "Git.CreateTree", "Repositories.GetCommit",
                                 "Git.CreateCommit", "Git.UpdateRef",
                                 "PullRequests.Create" >>
               /\ Len(calls) = 9

\* a batch of one destination created the commit branch and ended with one
\* URL and no error
C8_Witness ==
    /\ pc = "exit" /\ NDest = 1 /\ err = NoErr
    /\ urls = << DestURL(1) >>
    /\ Len(calls) = 9
    /\ ~calls[2].ok
    /\ calls[4].op = "Git.CreateRef" /\ calls[4].ok
    /\ option.Files = << FileA >>

\* the position of the first separator of s (0: none)
FirstSep(s) ==
    IF \E k \in DOMAIN s : s[k] = Sep
    THEN CHOOSE k \in DOMAIN s : s[k] = Sep /\ \A m \in 1..(k - 1) : s[m] # Sep
    ELSE 0

\* the characters of s after position k up to the next separator or the end
SegmentAfter(s, k) ==
    LET rest == SubSeq(s, k + 1, Len(s))
        e == FirstSep(rest)
    IN IF e = 0 THEN rest ELSE SubSeq(rest, 1, e - 1)

ExpectedLocal(s) == IF FirstSep(s) = 0 THEN s ELSE SubSeq(s, 1, FirstSep(s) - 1)

ExpectedTarget(s) == IF FirstSep(s) = 0 THEN s ELSE SegmentAfter(s, FirstSep(s))

OpIdx(j, op) == { k \in JobIdx(j) : calls[k].op = op }

\* every endpoint is used at most once per job, the reference read at most
\* twice (commit branch, then base branch), the user read once per batch
CallCounts ==
    /\ \A k \in DOMAIN calls :
          IF calls[k].job = 0 THEN calls[k].op = "Users.Get"
          ELSE calls[k].op \in {"Git.GetRef", "Git.CreateRef", "Git.CreateTree",
                                "Repositories.GetCommit", "Git.CreateCommit",
                                "Git.UpdateRef", "PullRequests.Create"}
    /\ Cardinality(JobIdx(0)) <= 1
    /\ \A j \in 1..NDest :
          /\ \A op \in {"Git.CreateRef", "Git.CreateTree", "Repositories.GetCommit",
                         "Git.CreateCommit", "Git.UpdateRef", "PullRequests.Create"} :
                Cardinality(OpIdx(j, op)) <= 1
          /\ Cardinality(OpIdx(j, "Git.GetRef")) <= 2
          /\ \A a \in OpIdx(j, "Git.GetRef") : \A b \in OpIdx(j, "Git.GetRef") :
                a < b => (/\ calls[a].ref = option.Head
                          /\ calls[b].ref = option.Destinations[j].Base
                          /\ b = a + 1)

\* C10 as stated: the call counts, and no call at all after the first failed
\* call of the batch.
C10_NothingAfterFailure ==
    /\ CallCounts
    /\ \A k \in DOMAIN calls : ~calls[k].ok => k = Len(calls)

\* C10, amended: the call counts, and no call after the first failed call
\* other than a job's lookup of the commit branch, whose failure is followed
\* only by the base-branch lookup and the calls of a job that goes on.
C10_NoRetry ==
    /\ CallCounts
    /\ \A k \in DOMAIN calls : (~calls[k].ok /\ ~IsLookup(k)) => k = Len(calls)
    /\ \A k \in DOMAIN calls :
          (~calls[k].ok /\ IsLookup(k) /\ k < Len(calls))
          => (calls[k + 1].op = "Git.GetRef" /\ calls[k + 1].job = calls[k].job)

\* the second job's tree creation failed for transport reasons after the
\* first job had created its branch, and the batch ended there
C10_Witness ==
    /\ pc = "exit" /\ NDest = 2 /\ i = 2
    /\ calls # << >>
    /\ calls[Len(calls)].op = "Git.CreateTree"
    /\ ~calls[Len(calls)].ok
    /\ faults = 1
    /\ \E k \in JobIdx(1) : calls[k].op = "Git.CreateRef" /\ calls[k].ok

\* C11: once Do has returned, the output is "hold ...", then every URL Do
\* returned, one per line in destination order, then one last line: the
\* error message when Do returned an error, "done." otherwise; "done." is
\* printed in no other case.
C11_Output ==
    /\ (pc = "exit" /\ calls # << >>)
          => /\ Len(out) = Len(urls) + 2
             /\ out[1] = << "hold ..." >>
             /\ \A j \in 1..Len(urls) :
                   out[j + 1] = urls[j] /\ urls[j] = DestURL(j)
             /\ out[Len(out)] = IF err # NoErr THEN << "sorry: " >> \o err
                                ELSE << "done." >>
    /\ (\E k \in DOMAIN out : out[k] = << "done." >>)
          => (pc = "exit" /\ err = NoErr /\ out[Len(out)] = << "done." >>)
    /\ pc # "exit" => \A k \in DOMAIN out : out[k] = << "hold ..." >>

\* the first destination's URL was printed, then the error of the second
C11_Witness ==
    /\ pc = "exit" /\ NDest = 2 /\ i = 2
    /\ Len(out) = 3
    /\ out[2] = DestURL(1)
    /\ err # NoErr
    /\ out[3] = << "sorry: " >> \o err

\* C12: an error of the commit-branch lookup, whatever its cause, sends the
\* resolver to the base-branch lookup; a successful base lookup sends it to
\* the creation call, which it issues for refs/heads/<commit branch> at the
\* base SHA even when that reference exists, and the service then refuses.
C12_LookupErrorMeansAbsent ==
    [][ LET issued == pc = "job" /\ Len(calls') = Len(calls) + 1
            last == calls'[Len(calls')]
        IN /\ (issued /\ jpc = "getRef" /\ ~last.ok)
                 => (pc' = "job" /\ jpc' = "getBaseRef" /\ i' = i)
           /\ (issued /\ jpc = "getBaseRef" /\ last.ok)
                 => /\ pc' = "job" /\ jpc' = "createRef" /\ i' = i
                    /\ ref' = [name |-> options.CommitBranch, sha |-> last.res]
           /\ (issued /\ jpc = "createRef")
                 => /\ last.op = "Git.CreateRef"
                    /\ last.repo = options.SourceRepo
                    /\ last.ref = options.CommitBranch
                    /\ last.sha = ref.sha
                    /\ RefExists(options.SourceRepo, options.CommitBranch)
                          => (~last.ok /\ refs' = refs /\ pc' = "exit"
                              /\ err' = << "Git.CreateRef" >>)
      ]_vars

\* the lookup of an existing commit branch failed, and the job ended on the
\* service refusing to create the reference
C12_Witness ==
    /\ pc = "exit" /\ i >= 1 /\ Len(JobCalls(i)) = 3
    /\ ~JobCalls(i)[1].ok
    /\ JobCalls(i)[2].ok
    /\ JobCalls(i)[3].op = "Git.CreateRef" /\ ~JobCalls(i)[3].ok
    /\ refs[JobCalls(i)[3].repo][JobCalls(i)[3].ref] # 0
    /\ err = << "Git.CreateRef" >>

\* C13: in every job, the tree is created on top of the SHA the resolved
\* reference held when it was resolved, the parent read and the single
\* parent of the new commit are that SHA, the reference update is issued
\* only after the commit creation succeeded and asks for the new commit,
\* and right after a successful update the commit branch points at it.
C13_CommitOnResolved ==
    \A j \in 1..NDest : \A m \in ResolvedAt(j) : \A k \in JobIdx(j) :
       LET c == calls[k]
           held == calls[m].res
       IN /\ c.op = "Git.CreateTree" => c.sha = held
          /\ c.op = "Repositories.GetCommit" => c.sha = held
          /\ c.op = "Git.CreateCommit"
               => /\ c.sha = held
                  /\ c.ok => (c.res \in DOMAIN commits /\ commits[c.res] = held
                              /\ c.res # held)
          /\ c.op = "Git.UpdateRef"
               => /\ k > 1
                  /\ calls[k - 1].job = j
                  /\ calls[k - 1].op = "Git.CreateCommit"
                  /\ calls[k - 1].ok
                  /\ c.sha = calls[k - 1].res
                  /\ c.ref = option.Head
                  /\ c.ok => IsAncestor(c.sha, refs[c.repo][c.ref])
                  /\ (c.ok /\ k = Len(calls)
                        /\ \A q \in DOMAIN pushes : pushes[q].at < k)
                       => refs[c.repo][c.ref] = c.sha

\* a job resolved its branch at a commit other than the first, built on it
\* and moved the branch to the new commit
C13_Witness ==
    \E j \in 1..NDest : \E m \in ResolvedAt(j) : \E k \in JobIdx(j) :
       /\ calls[k].op = "Git.UpdateRef" /\ calls[k].ok
       /\ k = Len(calls)
       /\ calls[m].res = 2
       /\ commits[calls[k].sha] = 2
       /\ refs[calls[k].repo][calls[k].ref] = calls[k].sha

\* the files job j has read, in order
JobReads(j) == SelectSeq(reads, LAMBDA r : r.job = j)

\* C14: when a file of a job cannot be read, the job and the batch end with
\* the tree-step error naming that file, no tree-creation or later call is
\* issued, the files after the unreadable one are not read, and a branch
\* the job created stays in the repository.
C14_UnreadableFile ==
    \A q \in DOMAIN reads :
       LET r == reads[q]
           jr == JobReads(r.job)
       IN ~r.ok
          => /\ q = Len(reads)
             /\ pc = "exit" /\ i = r.job
             /\ err = << "unable to create the tree based on the provided files",
                         "ReadFile" >> \o r.localFile
             /\ Len(urls) = r.job - 1
             /\ Len(calls) = r.at
             /\ Len(calls) \in ResolvedAt(r.job)
             /\ \A k \in JobIdx(r.job) :
                   calls[k].op \in {"Git.GetRef", "Git.CreateRef"}
             /\ Len(jr) <= Len(option.Files)
             /\ \A k \in DOMAIN jr :
                   jr[k].arg = option.Files[k] /\ (k < Len(jr) => jr[k].ok)
             /\ \A k \in JobIdx(r.job) :
                   (calls[k].op = "Git.CreateRef" /\ calls[k].ok)
                   => IsAncestor(calls[k].sha, refs[calls[k].repo][calls[k].ref])

\* the first of two files was unreadable in a job that had created its
\* branch: the second was not read and the branch is there
C14_Witness ==
    /\ pc = "exit" /\ i >= 1
    /\ Len(option.Files) = 2
    /\ Len(JobReads(i)) = 1
    /\ ~JobReads(i)[1].ok
    /\ calls[Len(calls)].op = "Git.CreateRef" /\ calls[Len(calls)].ok
    /\ calls[Len(calls)].job = i
    /\ refs[calls[Len(calls)].repo][option.Head] = calls[Len(calls)].sha

\* C15: a batch looks the user up exactly once, before any call of a job;
\* every job's options and every commit a job asks for carry that user's
\* name and email; when the lookup fails Do returns its error and no URL,
\* and no job starts.
C15_AuthorOnce ==
    /\ calls # << >> => (calls[1].op = "Users.Get" /\ calls[1].job = 0)
    /\ \A k \in DOMAIN calls : calls[k].op = "Users.Get" => k = 1
    /\ (pc = "job" \/ i >= 1)
          => /\ calls # << >>
             /\ calls[1].ok
             /\ author = [name |-> "name", email |-> "email"]
    /\ pc = "job" => (options.AuthorName = "name" /\ options.AuthorEmail = "email")
    /\ \A k \in DOMAIN calls :
          calls[k].op = "Git.CreateCommit" => calls[k].author = << "name", "email" >>
    /\ (calls # << >> /\ ~calls[1].ok)
          => /\ Len(calls) = 1
             /\ pc = "exit" /\ jpc = "none" /\ i = 0
             /\ urls = << >>
             /\ err = << "Users.Get" >>
             /\ reads = << >>

\* two jobs of one batch asked for their commits after the one lookup
C15_Witness ==
    /\ NDest = 2
    /\ \E a \in JobIdx(1) : \E b \in JobIdx(2) :
          /\ calls[a].op = "Git.CreateCommit" /\ calls[b].op = "Git.CreateCommit"
          /\ calls[a].author = calls[b].author
          /\ calls[a].author = << "name", "email" >>
    /\ Cardinality(JobIdx(0)) = 1

\* the messages do and its helpers wrap an error in
Wraps ==
    { "unable to get base ref",
      "unable to create the tree based on the provided files",
      "unable to create the commit", "unable to commit", "unable to create PR" }

\* the classification the code gives an error: the wrapping it added to the
\* error of the client or of the file system
Kind(e) == SelectSeq(e, LAMBDA x : x \in Wraps)

FailurePoints ==
    { "base lookup", "reference creation", "file read", "tree creation",
      "parent lookup", "commit creation", "reference update", "PR creation" }

\* where the job that ended the batch failed
FailurePoint ==
    IF reads # << >> /\ ~reads[Len(reads)].ok THEN "file read"
    ELSE CASE calls[Len(calls)].op = "Git.GetRef" -> "base lookup"
           [] calls[Len(calls)].op = "Git.CreateRef" -> "reference creation"
           [] calls[Len(calls)].op = "Git.CreateTree" -> "tree creation"
           [] calls[Len(calls)].op = "Repositories.GetCommit" -> "parent lookup"
           [] calls[Len(calls)].op = "Git.CreateCommit" -> "commit creation"
           [] calls[Len(calls)].op = "Git.UpdateRef" -> "reference update"
           [] calls[Len(calls)].op = "PullRequests.Create" -> "PR creation"

\* the classification of the error each failure point ends a job with
KindAt(point) ==
    CASE point = "base lookup" -> << "unable to get base ref" >>
      [] point = "reference creation" -> << >>
      [] point = "file read" -> << "unable to create the tree based on the provided files" >>
      [] point = "tree creation" -> << "unable to create the tree based on the provided files" >>
      [] point = "parent lookup" -> << "unable to create the commit" >>
      [] point = "commit creation" -> << "unable to create the commit", "unable to commit" >>
      [] point = "reference update" -> << "unable to create the commit" >>
      [] point = "PR creation" -> << "unable to create PR" >>

\* a job has ended the batch with an error
JobFailed == pc = "exit" /\ i >= 1 /\ err # NoErr

\* the error of a failed job is classified as KindAt says
KindAtHolds == JobFailed => Kind(err) = KindAt(FailurePoint)

\* C16: the error a failed job ends the batch with has the classification of
\* its failure point and of no other failure point.
C16_DistinctKinds ==
    JobFailed
    => /\ Kind(err) = KindAt(FailurePoint)
       /\ \A q \in FailurePoints \ {FailurePoint} : KindAt(q) # Kind(err)

\* C17: every remote call Do makes, the lookup of the user and the calls of
\* every job, is given the context the caller passed to Do, so that the
\* caller's cancellation reaches each of them.
C17_CallerContext == \A k \in DOMAIN calls : calls[k].ctx = "ctx"

\* the pull request of destination j is open at the service
PROpen(j) ==
    [repo |-> option.Destinations[j].Repository, head |-> option.Head,
     base |-> option.Destinations[j].Base] \in prs

\* C18: a job whose pull request is already open is not stopped by any
\* check before its steps: it starts with the lookup of its branch, and when
\* it reaches the creation of the pull request it has created its tree and
\* commit and moved the branch to the new commit; the creation is then
\* refused, which ends the batch with that error before any later destination.
C18_NoDuplicatePreCheck ==
    /\ [](\A j \in 1..NDest : \A k \in JobIdx(j) :
            (calls[k].op = "PullRequests.Create" /\ ~calls[k].ok /\ PROpen(j))
            => /\ k = Len(calls)
               /\ pc = "exit" /\ i = j
               /\ err = << "unable to create PR", "PullRequests.Create" >>
               /\ Len(urls) = j - 1
               /\ JobIdx(j + 1) = {}
               /\ ResolvedAt(j) # {}
               /\ \E t \in JobIdx(j) : calls[t].op = "Git.CreateTree" /\ calls[t].ok
               /\ calls[k - 2].job = j
               /\ calls[k - 2].op = "Git.CreateCommit" /\ calls[k - 2].ok
               /\ calls[k - 1].op = "Git.UpdateRef" /\ calls[k - 1].ok
               /\ calls[k - 1].sha = calls[k - 2].res
               /\ IsAncestor(calls[k - 2].res, refs[calls[k].repo][option.Head]))
    /\ [][ (pc = "job" /\ PROpen(i) /\ Len(calls') = Len(calls) + 1)
           => /\ jpc = "getRef"
                 => (calls'[Len(calls')].op = "Git.GetRef" /\ pc' = "job" /\ i' = i)
              /\ jpc = "createPR"
                 => /\ calls'[Len(calls')].op = "PullRequests.Create"
                    /\ ~calls'[Len(calls')].ok
                    /\ prs' = prs
                    /\ pc' = "exit" /\ i' = i
              /\ calls'[Len(calls')].op = "PullRequests.Create" => jpc = "createPR"
       ]_vars

\* in a second run, the first job moved its branch to a new commit and was
\* then refused the pull request the first run had opened; the second
\* destination was not attempted
C18_Witness ==
    /\ run = 2 /\ pc = "exit" /\ i = 1 /\ NDest = 2
    /\ PROpen(1)
    /\ Len(calls) >= 3
    /\ calls[Len(calls)].op = "PullRequests.Create" /\ ~calls[Len(calls)].ok
    /\ calls[Len(calls) - 1].op = "Git.UpdateRef" /\ calls[Len(calls) - 1].ok
    /\ refs[calls[Len(calls)].repo][option.Head] = calls[Len(calls) - 1].sha
    /\ option.Destinations[1] # option.Destinations[2]
    /\ JobIdx(2) = {}

\* C19: every remote call of a job addresses the owner "mercadolibre" and
\* the repository of the job's destination; a step of a job changes no
\* branch and opens no pull request in another repository; and no step
\* changes the batch description.
C19_JobFrame ==
    /\ [](\A k \in DOMAIN calls :
            calls[k].job >= 1
            => /\ calls[k].owner = "mercadolibre"
               /\ calls[k].repo = option.Destinations[calls[k].job].Repository)
    /\ [][ /\ option' = option
           /\ (pc = "job" /\ Len(calls') = Len(calls) + 1)
                => /\ \A r \in Repos \ {option.Destinations[i].Repository} :
                         refs'[r] = refs[r]
                   /\ \A p \in prs' \ prs :
                         p.repo = option.Destinations[i].Repository
       ]_vars

\* two jobs on different repositories, the second of which has moved its
\* branch and opened its pull request
C19_Witness ==
    /\ NDest = 2
    /\ option.Destinations[1].Repository # option.Destinations[2].Repository
    /\ JobSucceeded(1) /\ JobSucceeded(2)
    /\ \E k \in JobIdx(2) : calls[k].op = "Git.UpdateRef" /\ calls[k].ok
    /\ \E k \in JobIdx(2) : calls[k].op = "Git.CreateRef" /\ calls[k].ok

====
